---------------------------- MODULE Spec2Model ----------------------------
(***************************************************************************)
(* A model of the datetimeng time-zone classes: dateutil.py (calendar      *)
(* arithmetic), US.py (USTimeZone with its year-selected DST rules) and    *)
(* EU.py (Fixed and Europe).  A datetime is a record                       *)
(*     [year, month, day, tod, tzinfo]                                     *)
(* where tod is the time of day in seconds (hour*3600 + minute*60 +        *)
(* second; microseconds are not modelled) and tzinfo names the tzinfo      *)
(* object, "None" for a naive datetime.  A timedelta is a number of        *)
(* seconds.  The days of a date are counted in two parts (ordinal, tod)    *)
(* because seconds since year 1 do not fit TLC's 32-bit integers.          *)
(***************************************************************************)
EXTENDS Integers, Sequences, FiniteSets, TLC

VARIABLES
    pc,          \* "import": the class bodies have not run; "main": no datetime
                 \* yet; "dt": a datetime is at hand; "queried": a tzinfo method
                 \* has answered; "raised": the last operation raised
    dst_rules,   \* USTimeZone.dst_rules
    assertions,  \* __debug__: FALSE when python runs with -O
    dt,          \* the datetime at hand
    hist,        \* the datetimes dt was converted from, oldest first
    last         \* the last call: [op, arg, res], arg the tzinfo object called
                 \* (or the list sorted, or the datetime built)

vars == <<pc, dst_rules, assertions, dt, hist, last>>

---------------------------------------------------------------------------
(* Bounds of the exploration. *)

\* Years explored on each side of a rule generation's first year.
YearSpan == 0
\* Whole hours explored on each side of an anchor (a transition, a range end).
HourSpan == 1
\* Conversions in one chain of astimezone calls.
\* weekday_of_month is called with the indexes -MaxIndex .. MaxIndex - 1.
MaxIndex == 5
MaxHops == 2

---------------------------------------------------------------------------
(* Results of calls: a returned value or a raised exception. *)

Return(v) == [exc |-> "None", val |-> v]
Raise(e) == [exc |-> e]
Raised(r) == r.exc # "None"

\* The rest of a computation, F, applied to the value of a call that
\* returned; an exception passes through.
Bind(r, F(_)) == IF Raised(r) THEN r ELSE F(r.val)

---------------------------------------------------------------------------
(* The datetime module's proleptic Gregorian calendar. *)

MINYEAR == 1
MAXYEAR == 9999
\* date.max.toordinal()
MAXORDINAL == 3652059
DAY == 86400

_is_leap(year) == year % 4 = 0 /\ (year % 100 # 0 \/ year % 400 = 0)

_days_before_year(year) ==
    ((year - 1) * 365) + ((year - 1) \div 4) - ((year - 1) \div 100)
    + ((year - 1) \div 400)

_days_in_month(year, month) ==
    IF month = 2 THEN (IF _is_leap(year) THEN 29 ELSE 28)
    ELSE IF month \in {4, 6, 9, 11} THEN 30 ELSE 31

_DAYS_BEFORE_MONTH == <<0, 31, 59, 90, 120, 151, 181, 212, 243, 273, 304, 334>>

_days_before_month(year, month) ==
    _DAYS_BEFORE_MONTH[month] + (IF month > 2 /\ _is_leap(year) THEN 1 ELSE 0)

_ymd2ord(year, month, day) ==
    _days_before_year(year) + _days_before_month(year, month) + day

\* <<year, month, day>> of a proleptic Gregorian ordinal, 1 = 0001-01-01:
\* the 400-, 100-, 4- and 1-year cycles before it, then the month.
_ord2ymd(ordinal) ==
    LET before(m, leapyear) ==
            _DAYS_BEFORE_MONTH[m] + (IF m > 2 /\ leapyear THEN 1 ELSE 0)
        in_month(year, month, n, leapyear) ==
            <<year, month, n - before(month, leapyear) + 1>>
        in_year(year, n, leapyear, guess) ==
            in_month(year,
                     IF before(guess, leapyear) > n THEN guess - 1 ELSE guess,
                     n, leapyear)
        c1(n400, n100, n4, n1, n) ==
            IF n1 = 4 \/ n100 = 4
            THEN <<n400 * 400 + n100 * 100 + n4 * 4 + n1, 12, 31>>
            ELSE in_year(n400 * 400 + 1 + n100 * 100 + n4 * 4 + n1, n,
                         n1 = 3 /\ (n4 # 24 \/ n100 = 3), (n + 50) \div 32)
        c4(n400, n100, n4, n) == c1(n400, n100, n4, n \div 365, n % 365)
        c100(n400, n100, n) == c4(n400, n100, n \div 1461, n % 1461)
        c400(n400, n) == c100(n400, n \div 36524, n % 36524)
    IN  c400((ordinal - 1) \div 146097, (ordinal - 1) % 146097)

\* datetime(year, month, day, hour, minute, second, tzinfo=tz)
datetime(year, month, day, tod, tz) ==
    [year |-> year, month |-> month, day |-> day, tod |-> tod, tzinfo |-> tz]

toordinal(d) == _ymd2ord(d.year, d.month, d.day)

\* Monday is 0, Sunday is 6.
weekday(d) == (toordinal(d) + 6) % 7

\* The datetime of an ordinal and a time of day: OverflowError outside
\* MINYEAR..MAXYEAR.
dt_from_ordinal(ordinal, tod, tz) ==
    LET build(ymd) == datetime(ymd[1], ymd[2], ymd[3], tod, tz)
    IN  IF ordinal < 1 \/ ordinal > MAXORDINAL THEN Raise("OverflowError")
        ELSE Return(build(_ord2ymd(ordinal)))

\* d + timedelta(seconds=delta)
dt_add(d, delta) ==
    dt_from_ordinal(toordinal(d) + ((d.tod + delta) \div DAY),
                    (d.tod + delta) % DAY, d.tzinfo)

\* a < b for two naive datetimes (or two of the same tzinfo).
dt_lt(a, b) ==
    \/ a.year < b.year
    \/ a.year = b.year /\ a.month < b.month
    \/ a.year = b.year /\ a.month = b.month /\ a.day < b.day
    \/ a.year = b.year /\ a.month = b.month /\ a.day = b.day /\ a.tod < b.tod

dt_le(a, b) == ~dt_lt(b, a)

\* d.replace(tzinfo=None)
naive(d) == [d EXCEPT !.tzinfo = "None"]

---------------------------------------------------------------------------
(* dateutil.py *)

SUNDAY == 6
MARCH == 3
APRIL == 4
OCTOBER == 10
NOVEMBER == 11
WEEK == 604800

\* A leap year every fourth year, the centuries included.
is_leap_year_julian(d) == d.year % 4 = 0

\* (datetime.date(dt.year, 2, 28) + _DAY).month == 2
is_leap_year(d) == dt_add(datetime(d.year, 2, 28, 0, "None"), DAY).val.month = 2

days_in_month(d) ==
    IF d.month = 12 THEN 31
    ELSE _ymd2ord(d.year, d.month + 1, 1) - toordinal([d EXCEPT !.day = 1])

\* The first day of the weekday after the date, a week on when the date
\* falls on it.
first_weekday_after(wd, d) ==
    dt_add(d, (((wd - weekday(d) - 1) % 7) + 1) * DAY)

first_weekday_on_or_after(wd, d) ==
    LET go(days_to_go) ==
            IF days_to_go # 0 THEN dt_add(d, days_to_go * DAY) ELSE Return(d)
    IN  go((wd - weekday(d)) % 7)

first_weekday_on_or_before(wd, d) ==
    LET go(days_to_go) ==
            IF days_to_go # 0 THEN dt_add(d, -(days_to_go * DAY)) ELSE Return(d)
    IN  go((weekday(d) - wd) % 7)

weekday_of_month(wd, d, index) ==
    IF index >= 0
    THEN Bind(first_weekday_on_or_after(wd, [d EXCEPT !.day = 1]),
              LAMBDA base : dt_add(base, index * WEEK))
    ELSE Bind(first_weekday_on_or_before(
                  wd, [d EXCEPT !.day = days_in_month(d)]),
              LAMBDA base : dt_add(base, (1 + index) * WEEK))

---------------------------------------------------------------------------
(* US.py *)

\* DST_Rules.__init__: dummy_date is 1-<month>-01 at the rule's hour.
DST_Rules(month, sunday_index, hour) ==
    [month |-> month, sunday_index |-> sunday_index,
     dummy_date |-> datetime(1, month, 1, hour * 3600, "None")]

\* A start of DST at 3am.
DST_Start_3am(month, sunday_index) == DST_Rules(month, sunday_index, 3)

\* DST starts at 2am (standard time).
DST_Start(month, sunday_index) == DST_Rules(month, sunday_index, 2)

\* An end of DST at 2am.
DST_End_2am(month, sunday_index) == DST_Rules(month, sunday_index, 2)

\* DST ends at 1am (standard time; 2am DST time).
DST_End(month, sunday_index) == DST_Rules(month, sunday_index, 1)

\* DST_Rules.date(year): the date of the change in the given year.
DST_Rules_date(self, year, debug) ==
    Bind(weekday_of_month(SUNDAY, [self.dummy_date EXCEPT !.year = year],
                          self.sunday_index),
         LAMBDA date : IF debug /\ date.month # self.dummy_date.month
                       THEN Raise("AssertionError")
                       ELSE Return(date))

\* The list with the start of 2007 on the first Sunday of March.
dst_rules_first_sunday ==
    << <<2007, DST_Start(MARCH, 0), DST_End(NOVEMBER, 0)>>,
       <<1987, DST_Start(APRIL, 0), DST_End(OCTOBER, -1)>> >>

\* The dst_rules list of the class body, before it is sorted:
\* [(first year, start rule, end rule), ...]
dst_rules_literal ==
    << <<2007, DST_Start(MARCH, 1), DST_End(NOVEMBER, 0)>>,
       <<1987, DST_Start(APRIL, 0), DST_End(OCTOBER, -1)>> >>

\* list.sort(reverse=True) on tuples whose first components differ: an
\* insertion of each tuple after the tuples that are greater or equal.
RECURSIVE insert_descending(_, _)
insert_descending(rule, sorted) ==
    IF sorted = <<>> THEN <<rule>>
    ELSE IF sorted[1][1] >= rule[1]
    THEN <<sorted[1]>> \o insert_descending(rule, Tail(sorted))
    ELSE <<rule>> \o sorted

RECURSIVE sort_reverse(_)
sort_reverse(rules) ==
    IF rules = <<>> THEN <<>>
    ELSE insert_descending(rules[1], sort_reverse(Tail(rules)))

\* The list left in the order it was written in.
unsorted_dst_rules(rules) == rules

\* dst_rules.sort(reverse=True): reverse chronological order.
sorted_dst_rules(rules) == sort_reverse(rules)

USZones == {"Eastern", "Central", "Mountain", "Pacific"}

\* Eastern = USTimeZone(-5, "EST", "EDT") and the three others.
USTimeZone(name) ==
    CASE name = "Eastern" ->
             [stdoff |-> -5 * 3600, stdname |-> "EST", dstname |-> "EDT"]
      [] name = "Central" ->
             [stdoff |-> -6 * 3600, stdname |-> "CST", dstname |-> "CDT"]
      [] name = "Mountain" ->
             [stdoff |-> -7 * 3600, stdname |-> "MST", dstname |-> "MDT"]
      [] name = "Pacific" ->
             [stdoff |-> -8 * 3600, stdname |-> "PST", dstname |-> "PDT"]

\* USTimeZone.dstoff = timedelta(hours=1)
dstoff == 3600
\* USTimeZone.zero = timedelta(0)
zero == 0

\* for (first_year, dst_start, dst_end) in self.dst_rules:
\*     if dt.year >= first_year: break
\* The index of the rule the loop breaks at from index i on, 0 when it runs
\* to its else.
RECURSIVE first_rule_from(_, _, _)
first_rule_from(rules, i, year) ==
    IF i > Len(rules) THEN 0
    ELSE IF year >= rules[i][1] THEN i
    ELSE first_rule_from(rules, i + 1, year)

\* The last rule of the list: the oldest one, whatever the year.
select_rule_oldest(rules, year) ==
    IF year >= rules[Len(rules)][1] THEN Len(rules) ELSE 0

\* The rule USTimeZone.dst picks for a year.
select_rule(rules, year) == first_rule_from(rules, 1, year)

\* The comparison with its start excluded: start < dt < end.
US_in_dst_start_excluded(start, d, end) ==
    dt_lt(start, naive(d)) /\ dt_lt(naive(d), end)

\* The comparison with its end included: start <= dt <= end.
US_in_dst_end_included(start, d, end) ==
    dt_le(start, naive(d)) /\ dt_le(naive(d), end)

\* start <= dt.replace(tzinfo=None) < end
US_in_dst(start, d, end) == dt_le(start, naive(d)) /\ dt_lt(naive(d), end)

\* USTimeZone.dst(dt) of the zone named self, with the class's rules.
USTimeZone_dst(self, d, rules, debug) ==
    LET compare(start, end) ==
            IF US_in_dst(start, d, end) THEN Return(dstoff) ELSE Return(zero)
        check_end(start, end) ==
            IF debug /\ weekday(end) # 6 THEN Raise("AssertionError")
            ELSE IF debug /\ d.year >= 2007 /\ ~(end.day <= 7)
            THEN Raise("AssertionError")
            ELSE IF debug /\ d.year < 2007 /\ ~(end.day >= 25)
            THEN Raise("AssertionError")
            ELSE compare(start, end)
        check_start(rule, start) ==
            IF debug /\ weekday(start) # 6 THEN Raise("AssertionError")
            ELSE IF debug /\ d.year >= 2007
                          /\ ~(8 <= start.day /\ start.day <= 14)
            THEN Raise("AssertionError")
            ELSE IF debug /\ d.year < 2007 /\ ~(start.day <= 7)
            THEN Raise("AssertionError")
            ELSE Bind(DST_Rules_date(rule[3], d.year, debug),
                      LAMBDA end : check_end(start, end))
        with_rule(i) ==
            IF i = 0 THEN Return(zero)
            ELSE Bind(DST_Rules_date(rules[i][2], d.year, debug),
                      LAMBDA start : check_start(rules[i], start))
    IN  IF d.tzinfo = "None" THEN Return(zero)
        ELSE IF debug /\ d.tzinfo # self THEN Raise("AssertionError")
        ELSE with_rule(select_rule(rules, d.year))

USTimeZone_utcoffset(self, d, rules, debug) ==
    Bind(USTimeZone_dst(self, d, rules, debug),
         LAMBDA dst : Return(USTimeZone(self).stdoff + dst))

USTimeZone_tzname(self, d, rules, debug) ==
    Bind(USTimeZone_dst(self, d, rules, debug),
         LAMBDA dst : IF dst # 0 THEN Return(USTimeZone(self).dstname)
                      ELSE Return(USTimeZone(self).stdname))

---------------------------------------------------------------------------
(* EU.py *)

HOUR == 3600
ZERO == 0

\* The switches are at 1AM UTC on the last Sundays in March and October.
_dston == datetime(1, MARCH, 1, 3600, "None")
_dstoff == datetime(1, OCTOBER, 1, 3600, "None")

FixedZones == {"UTC"}

\* UTC = Fixed(ZERO, "UTC")
Fixed(name) == [offset |-> ZERO, name |-> "UTC"]

Fixed_tzname(self, d) == Return(Fixed(self).name)
Fixed_utcoffset(self, d) == Return(Fixed(self).offset)
Fixed_dst(self, d) == Return(ZERO)

\* London is WesternEU; Amsterdam and Berlin are CentralEU.
EUZones == {"WesternEU", "CentralEU", "EasternEU"}

Europe(name) ==
    CASE name = "WesternEU" ->
             [offset |-> ZERO, stdname |-> "WET", dstname |-> "WEST"]
      [] name = "CentralEU" ->
             [offset |-> HOUR, stdname |-> "CET", dstname |-> "CEST"]
      [] name = "EasternEU" ->
             [offset |-> HOUR + HOUR, stdname |-> "EET", dstname |-> "EEST"]

\* Nothing subtracted: the wall-clock value compared as it is.
Europe_strip_nothing(self, d) == Return(d)

\* dt -= self.offset
Europe_strip(self, d) == dt_add(d, -Europe(self).offset)

\* The comparison with its end included: dston <= dt <= dstoff.
Europe_in_dst_end_included(dston, d, dstoff_) ==
    dt_le(dston, naive(d)) /\ dt_le(naive(d), dstoff_)

\* dston <= dt.replace(tzinfo=None) < dstoff
Europe_in_dst(dston, d, dstoff_) ==
    dt_le(dston, naive(d)) /\ dt_lt(naive(d), dstoff_)

\* Europe.dst(dt) of the zone named self.
Europe_dst(self, d, debug) ==
    LET compare(dston, dstoff_, stripped) ==
            IF Europe_in_dst(dston, stripped, dstoff_) THEN Return(HOUR)
            ELSE Return(ZERO)
        strip(dston, dstoff_) ==
            Bind(Europe_strip(self, d),
                 LAMBDA stripped : compare(dston, dstoff_, stripped))
        off(dston) ==
            Bind(weekday_of_month(SUNDAY, [_dstoff EXCEPT !.year = d.year], -1),
                 LAMBDA dstoff_ : strip(dston, dstoff_))
    IN  IF d.tzinfo = "None" THEN Return(ZERO)
        ELSE IF debug /\ d.tzinfo # self THEN Raise("AssertionError")
        ELSE Bind(weekday_of_month(SUNDAY, [_dston EXCEPT !.year = d.year], -1),
                  LAMBDA dston : off(dston))

Europe_tzname(self, d, debug) ==
    Bind(Europe_dst(self, d, debug),
         LAMBDA dst : IF dst # 0 THEN Return(Europe(self).dstname)
                      ELSE Return(Europe(self).stdname))

Europe_utcoffset(self, d, debug) ==
    Bind(Europe_dst(self, d, debug),
         LAMBDA dst : Return(Europe(self).offset + dst))

---------------------------------------------------------------------------
(* The tzinfo objects of US.py and EU.py, by name. *)

Zones == USZones \cup EUZones \cup FixedZones
RuleZones == USZones \cup EUZones

tz_dst(tz, d, rules, debug) ==
    IF tz \in USZones THEN USTimeZone_dst(tz, d, rules, debug)
    ELSE IF tz \in EUZones THEN Europe_dst(tz, d, debug)
    ELSE Fixed_dst(tz, d)

tz_utcoffset(tz, d, rules, debug) ==
    IF tz \in USZones THEN USTimeZone_utcoffset(tz, d, rules, debug)
    ELSE IF tz \in EUZones THEN Europe_utcoffset(tz, d, debug)
    ELSE Fixed_utcoffset(tz, d)

tz_tzname(tz, d, rules, debug) ==
    IF tz \in USZones THEN USTimeZone_tzname(tz, d, rules, debug)
    ELSE IF tz \in EUZones THEN Europe_tzname(tz, d, debug)
    ELSE Fixed_tzname(tz, d)

---------------------------------------------------------------------------
(* datetime.astimezone and the default tzinfo.fromutc of the datetime      *)
(* module, which the doctests of US.py and EU.py exercise.                 *)

\* tzinfo.fromutc(dt): dt holds a UTC time and is tagged with self.
\*     delta = dt.utcoffset() - dt.dst()
\*     if delta: dt += delta; dtdst = dt.dst()
\*     return dt + dtdst
tzinfo_fromutc(self, d, rules, debug) ==
    LET finish(moved) ==
            Bind(tz_dst(self, moved, rules, debug),
                 LAMBDA dtdst : dt_add(moved, dtdst))
        step(dtoff, dtdst) ==
            IF dtoff - dtdst # 0
            THEN Bind(dt_add(d, dtoff - dtdst), LAMBDA moved : finish(moved))
            ELSE dt_add(d, dtdst)
    IN  Bind(tz_utcoffset(self, d, rules, debug),
             LAMBDA dtoff : Bind(tz_dst(self, d, rules, debug),
                                 LAMBDA dtdst : step(dtoff, dtdst)))

\* dt.astimezone(tz) of an aware datetime dt.
datetime_astimezone(d, tz, rules, debug) ==
    IF d.tzinfo = tz THEN Return(d)
    ELSE Bind(tz_utcoffset(d.tzinfo, d, rules, debug),
              LAMBDA offset :
                  Bind(dt_add(d, -offset),
                       LAMBDA utc : tzinfo_fromutc(
                           tz, [utc EXCEPT !.tzinfo = tz], rules, debug)))

---------------------------------------------------------------------------
(* The datetimes explored: around every transition and both ends of the    *)
(* representable range, in every zone.                                     *)

\* The day of the Sunday among the days lo..hi of a month.
SundayIn(year, month, lo, hi) ==
    CHOOSE day \in lo..hi : weekday(datetime(year, month, day, 0, "None")) = 6

FirstSunday(year, month) == SundayIn(year, month, 1, 7)
SecondSunday(year, month) == SundayIn(year, month, 8, 14)
LastSunday(year, month) ==
    SundayIn(year, month, _days_in_month(year, month) - 6,
             _days_in_month(year, month))

\* The wall-clock times US DST starts and ends at in a year, by the rule of
\* 2007 from 2007 on and by the rule of 1987 before.
USStart(year) ==
    IF year >= 2007
    THEN datetime(year, 3, SecondSunday(year, 3), 2 * 3600, "None")
    ELSE datetime(year, 4, FirstSunday(year, 4), 2 * 3600, "None")

USEnd(year) ==
    IF year >= 2007
    THEN datetime(year, 11, FirstSunday(year, 11), 3600, "None")
    ELSE datetime(year, 10, LastSunday(year, 10), 3600, "None")

\* The UTC times EU DST starts and ends at in a year.
EUOn(year) == datetime(year, 3, LastSunday(year, 3), 3600, "None")
EUOff(year) == datetime(year, 10, LastSunday(year, 10), 3600, "None")

StdOffset(tz) ==
    IF tz \in USZones THEN USTimeZone(tz).stdoff
    ELSE IF tz \in EUZones THEN Europe(tz).offset
    ELSE 0

\* d moved by delta seconds, for a move that stays in the range.
Shift(d, delta) == dt_add(d, delta).val

Years ==
    {MINYEAR, 2002, MAXYEAR}
    \cup ((1987 - 1 - YearSpan)..(1987 + YearSpan))
    \cup ((2007 - 1 - YearSpan)..(2007 + YearSpan))

\* One second before the hour, the hour, and half past.
SecDeltas == {-1, 0, 1800}
Offsets == {k * 3600 + e : k \in (-HourSpan)..HourSpan, e \in SecDeltas}

\* The first and the last hours of a year: of the first and the last
\* representable years, and of 2006 into 2007.
RangeAnchors(year) ==
    IF year \in {MINYEAR, 2006, MAXYEAR}
    THEN {datetime(year, 1, 1, 3600, "None"),
          datetime(year, 12, 31, 82800, "None")}
    ELSE {}

\* The transitions of a zone in its own wall-clock time.
WallAnchors(tz, year) ==
    IF tz \in USZones THEN {USStart(year), USEnd(year)}
    ELSE {Shift(EUOn(year), StdOffset(tz)), Shift(EUOff(year), StdOffset(tz))}

\* The transitions of every zone in UTC, their wall-clock time read as
\* standard time and as DST.
UTCAnchors(year) ==
    {Shift(a, -(StdOffset(tz) + h)) :
        a \in {USStart(year), USEnd(year)}, tz \in USZones, h \in {0, 3600}}
    \cup {Shift(a, -h) : a \in {EUOn(year), EUOff(year)}, h \in {0, 3600}}

Anchors(tz, year) ==
    RangeAnchors(year)
    \cup (IF tz \in RuleZones THEN WallAnchors(tz, year)
          ELSE IF tz = "UTC" THEN UTCAnchors(year)
          ELSE WallAnchors("Eastern", year))

Tags == Zones \cup {"None"}

Samples ==
    UNION {UNION {UNION {
        LET r == dt_add(a, o)
        IN  IF Raised(r) THEN {} ELSE {[r.val EXCEPT !.tzinfo = tz]}
        : o \in Offsets} : a \in Anchors(tz, year)}
        : tz \in Tags, year \in Years}

\* The orders the class body may list the rules in.
SuppliedRules ==
    {<<dst_rules_literal[1], dst_rules_literal[2]>>,
     <<dst_rules_literal[2], dst_rules_literal[1]>>}

---------------------------------------------------------------------------
(* The program. *)

NoCall == [op |-> "None", arg |-> "None", res |-> Return(0)]

Init ==
    /\ pc = "import"
    /\ dst_rules \in SuppliedRules
    /\ assertions \in BOOLEAN
    /\ dt = datetime(MINYEAR, 1, 1, 0, "None")
    /\ hist = <<>>
    /\ last = NoCall

\* The class body of USTimeZone: the list, then dst_rules.sort(reverse=True).
ClassBody ==
    /\ pc = "import"
    /\ dst_rules' = sorted_dst_rules(dst_rules)
    /\ last' = [op |-> "sort", arg |-> dst_rules, res |-> Return(0)]
    /\ pc' = "main"
    /\ UNCHANGED <<assertions, dt, hist>>

\* datetime(..., tzinfo=tz)
Construct ==
    /\ pc = "main"
    /\ \E d \in Samples :
           /\ dt' = d
           /\ last' = [op |-> "datetime", arg |-> d, res |-> Return(0)]
    /\ pc' = "dt"
    /\ UNCHANGED <<dst_rules, assertions, hist>>

Called(op, tz, res) ==
    /\ last' = [op |-> op, arg |-> tz, res |-> res]
    /\ pc' = IF Raised(res) THEN "raised" ELSE "queried"
    /\ UNCHANGED <<dst_rules, assertions, dt, hist>>

\* tz.utcoffset(dt)
Utcoffset(tz) ==
    /\ pc = "dt"
    /\ Called("utcoffset", tz, tz_utcoffset(tz, dt, dst_rules, assertions))

\* tz.tzname(dt)
Tzname(tz) ==
    /\ pc = "dt"
    /\ Called("tzname", tz, tz_tzname(tz, dt, dst_rules, assertions))

\* tz.dst(dt)
Dst(tz) ==
    /\ pc = "dt"
    /\ Called("dst", tz, tz_dst(tz, dt, dst_rules, assertions))

\* The zone a chain of conversions goes to next: any zone first, then back
\* and forth between the first two.
NextTarget(tz) ==
    IF Len(hist) = 0 THEN TRUE ELSE tz = hist[Len(hist)].tzinfo

Converted(tz, res) ==
    /\ last' = [op |-> "astimezone", arg |-> tz, res |-> res]
    /\ IF Raised(res)
       THEN pc' = "raised" /\ UNCHANGED <<dt, hist>>
       ELSE pc' = "dt" /\ dt' = res.val /\ hist' = Append(hist, dt)
    /\ UNCHANGED <<dst_rules, assertions>>

\* dt = dt.astimezone(tz)
AsTimezone(tz) ==
    /\ pc = "dt"
    /\ dt.tzinfo # "None"
    /\ Len(hist) < MaxHops
    /\ NextTarget(tz)
    /\ Converted(tz, datetime_astimezone(dt, tz, dst_rules, assertions))

Next ==
    \/ ClassBody
    \/ Construct
    \/ \E tz \in Zones : Utcoffset(tz)
    \/ \E tz \in Zones : Tzname(tz)
    \/ \E tz \in Zones : Dst(tz)

Spec == Init /\ [][Next]_vars

NextConv ==
    \/ ClassBody
    \/ Construct
    \/ \E tz \in Zones : AsTimezone(tz)

SpecConv == Init /\ [][NextConv]_vars

---------------------------------------------------------------------------
(* The functions of dateutil.py and the methods of US.py called on their   *)
(* own, once each, on a date of any year.                                  *)

UtilYears == MINYEAR..MAXYEAR
Months == 1..12
Weekdays == 0..6
Indexes == (-MaxIndex)..(MaxIndex - 1)

\* Midnight, and 13:22:44.
UtilTimes == {0, 48164}

\* A call of a function on the datetime d: what it was called with besides
\* d, and what came of it.
Applied(op, d, arg, res) ==
    /\ dt' = d
    /\ last' = [op |-> op, arg |-> arg, res |-> res]
    /\ pc' = IF Raised(res) THEN "raised" ELSE "returned"
    /\ UNCHANGED <<dst_rules, assertions, hist>>

\* is_leap_year(dt)
IsLeapYear ==
    /\ pc = "main"
    /\ \E y \in UtilYears, m \in {1, 12} :
           Applied("is_leap_year", datetime(y, m, 1, 0, "None"), "None",
                   Return(is_leap_year(datetime(y, m, 1, 0, "None"))))

\* days_in_month(dt)
DaysInMonth ==
    /\ pc = "main"
    /\ \E y \in UtilYears, m \in Months :
           Applied("days_in_month", datetime(y, m, 28, 0, "None"), "None",
                   Return(days_in_month(datetime(y, m, 28, 0, "None"))))

\* weekday_of_month(weekday, dt, index)
WeekdayOfMonth ==
    /\ pc = "main"
    /\ \E y \in Years, m \in Months, d \in {1, 25}, t \in UtilTimes,
          wd \in Weekdays, index \in Indexes :
           Applied("weekday_of_month", datetime(y, m, d, t, "None"),
                   <<wd, index>>,
                   weekday_of_month(wd, datetime(y, m, d, t, "None"), index))

\* rule.date(year), rule the start (k = 2) or the end (k = 3) of the i-th
\* entry of dst_rules.
Date ==
    /\ pc = "main"
    /\ \E y \in UtilYears, i \in 1..Len(dst_rules), k \in {2, 3} :
           Applied("date", datetime(y, 1, 1, 0, "None"), <<i, k>>,
                   DST_Rules_date(dst_rules[i][k], y, assertions))

\* tz.dst(datetime(year, 7, 1, 12, tzinfo=tz))
DstOfYear(tz) ==
    /\ pc = "main"
    /\ \E y \in UtilYears :
           Applied("dst", datetime(y, 7, 1, 43200, tz), tz,
                   USTimeZone_dst(tz, datetime(y, 7, 1, 43200, tz), dst_rules,
                                  assertions))

NextUtil ==
    \/ ClassBody
    \/ IsLeapYear
    \/ DaysInMonth
    \/ WeekdayOfMonth
    \/ Date
    \/ \E tz \in USZones : DstOfYear(tz)

SpecUtil == Init /\ [][NextUtil]_vars

---------------------------------------------------------------------------
(* What the claims read off a state. *)

QueryOps == {"utcoffset", "tzname", "dst"}

\* A tzinfo method of zone tz has answered for a datetime tagged with tz.
Answered(tz) ==
    /\ pc \in {"queried", "raised"}
    /\ last.op \in QueryOps
    /\ last.arg = tz
    /\ dt.tzinfo = tz

\* start <= w < end for wall-clock values.
Within(start, w, end) == dt_le(start, naive(w)) /\ dt_lt(naive(w), end)

\* The answer every method gives when DST is active (or is not) in a zone
\* of standard offset std and of these two names.
Resolves(active, std, stdname, dstname) ==
    /\ last.op = "dst" => last.res = Return(IF active THEN 3600 ELSE 0)
    /\ last.op = "utcoffset" =>
           last.res = Return(std + (IF active THEN 3600 ELSE 0))
    /\ last.op = "tzname" =>
           last.res = Return(IF active THEN dstname ELSE stdname)

USResolves(tz, active) ==
    Resolves(active, USTimeZone(tz).stdoff, USTimeZone(tz).stdname,
             USTimeZone(tz).dstname)

\* The wall-clock value w lies on the day of d, at a time of day in lo..hi-1.
OnDayOf(w, d, lo, hi) ==
    /\ w.year = d.year /\ w.month = d.month /\ w.day = d.day
    /\ lo <= w.tod /\ w.tod < hi

---------------------------------------------------------------------------
\* C1: for a datetime tagged with a US zone, of a year from 1987 on, DST is
\* active iff start <= w < end, w the wall-clock value with the tag
\* stripped: from 02:00 on the first Sunday of April to 01:00 on the last
\* Sunday of October until 2006, from 02:00 on the second Sunday of March to
\* 01:00 on the first Sunday of November from 2007 on.  utcoffset is the
\* standard offset plus one hour when active and the standard offset
\* otherwise; tzname is the DST name when active, the standard name otherwise.
C1_USRule ==
    \A tz \in USZones :
        Answered(tz) /\ dt.year >= 1987 =>
            USResolves(tz, Within(USStart(dt.year), dt, USEnd(dt.year)))

\* Eastern, 2007-03-11 02:00:00, the first second of DST under the rule of
\* 2007: utcoffset is -4 hours.
C1_Witness ==
    /\ Answered("Eastern")
    /\ dt = datetime(2007, 3, 11, 7200, "Eastern")
    /\ last.op = "utcoffset"
    /\ last.res = Return(-4 * 3600)

\* C2: on the day DST ends, every wall-clock time from 01:00:00 to 01:59:59
\* resolves to standard time, and 00:59:59 of that day to DST.
C2_FoldHour ==
    \A tz \in USZones :
        Answered(tz) /\ dt.year >= 1987 =>
            /\ OnDayOf(dt, USEnd(dt.year), 3600, 7200) => USResolves(tz, FALSE)
            /\ OnDayOf(dt, USEnd(dt.year), 3599, 3600) => USResolves(tz, TRUE)

\* Eastern, 2002-10-27 01:59:59 is EST.
C2_Witness ==
    /\ Answered("Eastern")
    /\ dt = datetime(2002, 10, 27, 7199, "Eastern")
    /\ last.op = "tzname"
    /\ last.res = Return("EST")

---------------------------------------------------------------------------
\* The datetime the first conversion of a chain returned.
FirstResult == IF Len(hist) = 1 THEN dt ELSE hist[2]

\* A datetime tagged with src has been converted to dst.
Hop(src, dst) ==
    Len(hist) >= 1 /\ hist[1].tzinfo = src /\ FirstResult.tzinfo = dst

\* A datetime tagged with tz has been converted to UTC and back to tz.
RoundTrip(tz) ==
    /\ Len(hist) = 2
    /\ hist[1].tzinfo = tz /\ hist[2].tzinfo = "UTC" /\ dt.tzinfo = tz

\* A conversion of the chain tz -> UTC -> tz has raised, the chain having
\* started from w.
RoundTripRaised(tz, w) ==
    /\ pc = "raised" /\ last.op = "astimezone" /\ w.tzinfo = tz
    /\ \/ Len(hist) = 0 /\ w = dt /\ last.arg = "UTC"
       \/ Len(hist) = 1 /\ w = hist[1] /\ dt.tzinfo = "UTC" /\ last.arg = tz

\* d with its tag replaced.
Tagged(d, tz) == [d EXCEPT !.tzinfo = tz]

\* The hour the clocks of a US zone skip, and the hour they repeat.
InUSGap(w) ==
    w.year >= 1987
    /\ Within(USStart(w.year), w, Shift(USStart(w.year), 3600))

InUSFold(w) ==
    w.year >= 1987 /\ Within(USEnd(w.year), w, Shift(USEnd(w.year), 3600))

\* The hour before the one skipped.
BeforeUSGap(w) ==
    w.year >= 1987
    /\ Within(Shift(USStart(w.year), -3600), w, USStart(w.year))

\* C3: for every US zone and year >= 1987, a wall-clock time w from 02:00:00
\* to 02:59:59 on the day DST starts resolves to DST: its UTC time is w less
\* the standard offset and the hour of DST, the UTC time of w - 1h in
\* standard time.  Converted to UTC and back it is w - 1h in standard time.
\* A time in the hour before, 01:59:59 included, resolves to standard time.
C3_GapHour ==
    \A tz \in USZones :
        /\ Hop(tz, "UTC") /\ InUSGap(hist[1]) =>
               /\ tz_dst(tz, hist[1], dst_rules, assertions) = Return(dstoff)
               /\ FirstResult
                      = Tagged(Shift(hist[1], -(StdOffset(tz) + 3600)), "UTC")
        /\ Hop(tz, "UTC") /\ BeforeUSGap(hist[1]) =>
               /\ tz_dst(tz, hist[1], dst_rules, assertions) = Return(zero)
               /\ FirstResult = Tagged(Shift(hist[1], -StdOffset(tz)), "UTC")
        /\ RoundTrip(tz) /\ InUSGap(hist[1]) =>
               /\ dt = Shift(hist[1], -3600)
               /\ tz_utcoffset(tz, dt, dst_rules, assertions)
                      = Return(StdOffset(tz))
        /\ \A w \in {dt} \cup {hist[i] : i \in 1..Len(hist)} :
               InUSGap(w) => ~RoundTripRaised(tz, w)

\* Eastern 2002-04-07 02:00:00 is 06:00:00 UTC, and comes back as 01:00:00.
C3_Witness ==
    /\ RoundTrip("Eastern")
    /\ hist[1] = datetime(2002, 4, 7, 2 * 3600, "Eastern")
    /\ hist[2] = datetime(2002, 4, 7, 6 * 3600, "UTC")
    /\ dt = datetime(2002, 4, 7, 3600, "Eastern")

---------------------------------------------------------------------------
\* The hour the clocks of an EU zone skip: T_on + s to T_on + s + 1h.
InEUGap(tz, w) ==
    Within(Shift(EUOn(w.year), StdOffset(tz)), w,
           Shift(EUOn(w.year), StdOffset(tz) + 3600))

\* The hour the clocks of an EU zone repeat: T_off + s to T_off + s + 1h.
InEUFold(tz, w) ==
    Within(Shift(EUOff(w.year), StdOffset(tz)), w,
           Shift(EUOff(w.year), StdOffset(tz) + 3600))

\* The wall-clock value w of zone tz is in no gap hour and in no fold hour.
Plain(tz, w) ==
    IF tz \in USZones THEN ~InUSGap(w) /\ ~InUSFold(w)
    ELSE ~InEUGap(tz, w) /\ ~InEUFold(tz, w)

\* C4: for every US or EU zone and every datetime w tagged with it, in no
\* gap hour and in no fold hour, the conversion of w to UTC and of the result
\* back to the zone returns w, with the same offset and the same DST status.
C4_RoundTrip ==
    \A tz \in RuleZones :
        /\ RoundTrip(tz) /\ Plain(tz, hist[1]) => dt = hist[1]
        /\ \A w \in {dt} \cup {hist[i] : i \in 1..Len(hist)} :
               Plain(tz, w) => ~RoundTripRaised(tz, w)

---------------------------------------------------------------------------
\* The wall-clock value w of an EU zone, its standard offset stripped, lies
\* from T_on to T_off of w's year, T_off excluded; r is w less the offset.
EUActiveAt(r, year) ==
    ~Raised(r) /\ Within(EUOn(year), r.val, EUOff(year))

EUActive(tz, w) == EUActiveAt(dt_add(naive(w), -StdOffset(tz)), w.year)

EUResolves(tz, active) ==
    Resolves(active, Europe(tz).offset, Europe(tz).stdname,
             Europe(tz).dstname)

\* The answer of the last call says that DST is active.
SaysDST(tz) ==
    \/ last.op = "dst" /\ last.res = Return(3600)
    \/ last.op = "utcoffset" /\ last.res = Return(StdOffset(tz) + 3600)
    \/ last.op = "tzname" /\ last.res = Return(Europe(tz).dstname)

\* The zone tz2 says of the wall-clock value w2 what active says.
Agrees(tz2, w2, active) ==
    ~Raised(w2) =>
        (tz_dst(tz2, [w2.val EXCEPT !.tzinfo = tz2], dst_rules, assertions)
            = Return(3600)) <=> active

\* C5: for a datetime tagged with an EU zone of standard offset s, DST is
\* active iff T_on <= w - s < T_off, T_on and T_off being 01:00 on the last
\* Sunday of March and of October of w's year: only s is stripped.  A
\* datetime of another EU zone with the same w - s has the same DST status,
\* and the hour from T_on + s to T_on + s + 1h resolves to DST.
C5_EURule ==
    \A tz \in EUZones :
        Answered(tz) =>
            /\ SaysDST(tz) <=> EUActive(tz, dt)
            /\ ~Raised(last.res) => EUResolves(tz, EUActive(tz, dt))
            /\ ~Raised(last.res) =>
                   \A tz2 \in EUZones :
                       Agrees(tz2, dt_add(dt, StdOffset(tz2) - StdOffset(tz)),
                              EUActive(tz, dt))
            /\ InEUGap(tz, dt) => EUResolves(tz, TRUE)

\* EasternEU, 2002-03-31 03:00:00, which is T_on + 2h: DST is one hour.
C5_Witness ==
    /\ Answered("EasternEU")
    /\ dt = datetime(2002, 3, 31, 3 * 3600, "EasternEU")
    /\ last.op = "dst"
    /\ last.res = Return(3600)

---------------------------------------------------------------------------
\* The UTC time u converts to the wall-clock time w of CentralEU, Amsterdam's
\* zone, at the offset off.
ToAmsterdam(u, w, off) ==
    Hop("UTC", "CentralEU") /\ hist[1] = Tagged(u, "UTC") =>
        /\ FirstResult = Tagged(w, "CentralEU")
        /\ tz_utcoffset("CentralEU", FirstResult, dst_rules, assertions)
               = Return(off)

\* The wall-clock time w of CentralEU is the UTC time u.
AmsterdamIs(w, u) ==
    Hop("CentralEU", "UTC") /\ hist[1] = Tagged(w, "CentralEU") =>
        FirstResult = Tagged(u, "UTC")

\* C6: 2002-10-26 23:00 UTC is 2002-10-27 01:00:00+02:00 in Amsterdam;
\* 2002-10-27 00:00 UTC and 01:00 UTC are both 02:00:00+01:00.  Amsterdam's
\* 01:59:59 of that day is 23:59:59 UTC of the day before and its 02:00:00 is
\* 01:00:00 UTC.  For every EU zone of standard offset s and every year, a
\* UTC time u in the hour before T_off converts to u + s + 1h, which is in
\* the fold hour and resolves to standard time, and is what u + 1h converts
\* to.
C6_EUFallBack ==
    /\ ToAmsterdam(datetime(2002, 10, 26, 23 * 3600, "None"),
                   datetime(2002, 10, 27, 3600, "None"), 2 * 3600)
    /\ ToAmsterdam(datetime(2002, 10, 27, 0, "None"),
                   datetime(2002, 10, 27, 2 * 3600, "None"), 3600)
    /\ ToAmsterdam(datetime(2002, 10, 27, 3600, "None"),
                   datetime(2002, 10, 27, 2 * 3600, "None"), 3600)
    /\ AmsterdamIs(datetime(2002, 10, 27, 7199, "None"),
                   datetime(2002, 10, 26, 86399, "None"))
    /\ AmsterdamIs(datetime(2002, 10, 27, 7200, "None"),
                   datetime(2002, 10, 27, 3600, "None"))
    /\ \A tz \in EUZones :
           Hop("UTC", tz) =>
               /\ Within(Shift(EUOff(hist[1].year), -3600), hist[1],
                         EUOff(hist[1].year)) =>
                      /\ FirstResult
                             = Tagged(Shift(hist[1], StdOffset(tz) + 3600), tz)
                      /\ InEUFold(tz, FirstResult)
                      /\ tz_dst(tz, FirstResult, dst_rules, assertions)
                             = Return(ZERO)
               /\ Within(EUOff(hist[1].year), hist[1],
                         Shift(EUOff(hist[1].year), 3600)) =>
                      FirstResult = Tagged(Shift(hist[1], StdOffset(tz)), tz)
    /\ \A tz \in EUZones :
           /\ pc = "raised" /\ last.op = "astimezone" /\ last.arg = tz
           /\ Len(hist) = 0 /\ dt.tzinfo = "UTC"
           => ~Within(Shift(EUOff(dt.year), -3600), dt,
                      Shift(EUOff(dt.year), 3600))

\* 2002-10-27 00:00 UTC, in the hour before T_off, is 02:00:00 in CentralEU.
C6_Witness ==
    /\ Len(hist) = 1
    /\ hist[1] = datetime(2002, 10, 27, 0, "UTC")
    /\ dt = datetime(2002, 10, 27, 2 * 3600, "CentralEU")

---------------------------------------------------------------------------
\* The first year of the generation that holds for year Y, 0 for none.
ExpectedFirstYear(Y) ==
    IF Y >= 2007 THEN 2007 ELSE IF Y >= 1987 THEN 1987 ELSE 0

\* The rule at index i is the one of the greatest first year <= Y.
GreatestFirstYear(rules, i, Y) ==
    IF i = 0 THEN \A j \in 1..Len(rules) : rules[j][1] > Y
    ELSE /\ rules[i][1] <= Y
         /\ \A j \in 1..Len(rules) :
                rules[j][1] <= Y => rules[j][1] <= rules[i][1]

\* C7: for every US zone and year Y the rule used is the generation of the
\* greatest first year <= Y: the one of 2007 for Y >= 2007, the one of 1987
\* for 1987 <= Y <= 2006; for Y < 1987 no generation is selected and every
\* method returns the answer of standard time: DST zero, the standard offset,
\* the standard name.
C7_Generation ==
    \A tz \in USZones :
        Answered(tz) =>
            /\ GreatestFirstYear(dst_rules, select_rule(dst_rules, dt.year),
                                 dt.year)
            /\ IF ExpectedFirstYear(dt.year) = 0
               THEN select_rule(dst_rules, dt.year) = 0
               ELSE dst_rules[select_rule(dst_rules, dt.year)][1]
                        = ExpectedFirstYear(dt.year)
            /\ USResolves(tz, /\ dt.year >= 1987
                              /\ Within(USStart(dt.year), dt, USEnd(dt.year)))

\* Pacific, 1986-04-06 02:30:00, DST by the rule of 1987 had it held: PST.
C7_Witness ==
    /\ Answered("Pacific")
    /\ dt = datetime(1986, 4, 6, 9000, "Pacific")
    /\ last.op = "tzname"
    /\ last.res = Return("PST")

---------------------------------------------------------------------------
Descending(rules) ==
    \A i \in 1..(Len(rules) - 1) : rules[i][1] > rules[i + 1][1]

SameRules(a, b) ==
    Len(a) = Len(b) /\ {a[i] : i \in DOMAIN a} = {b[i] : i \in DOMAIN b}

---------------------------------------------------------------------------
\* C9: a rule-based zone asked for utcoffset, tzname or dst of a datetime
\* tagged with another zone fails, with the assertions enabled and with them
\* disabled: it never returns a value.
C9_MismatchFails ==
    \A b \in RuleZones :
        /\ pc \in {"queried", "raised"}
        /\ last.op \in QueryOps
        /\ last.arg = b
        /\ dt.tzinfo \in Zones \ {b}
        => Raised(last.res)

---------------------------------------------------------------------------
\* C10: for every zone and every datetime tagged with it, of any year from 1
\* to 9999, utcoffset, tzname and dst each return a value and never raise.
C10_Total ==
    \A tz \in Zones : Answered(tz) => ~Raised(last.res)

---------------------------------------------------------------------------
\* The function op has been called on dt.
Did(op) == pc \in {"returned", "raised"} /\ last.op = op

\* The ordinal of the first day from ordinal o on that falls on weekday wd,
\* and of the last one up to o.
FirstFrom(wd, o) == CHOOSE n \in o..(o + 6) : (n + 6) % 7 = wd
LastUpTo(wd, o) == CHOOSE n \in (o - 6)..o : (n + 6) % 7 = wd

\* The length of a month of the Gregorian calendar.
GregorianLeap(y) == (y % 4 = 0 /\ y % 100 # 0) \/ y % 400 = 0

MonthLength(y, m) ==
    IF m = 2 THEN (IF GregorianLeap(y) THEN 29 ELSE 28)
    ELSE IF m \in {4, 6, 9, 11} THEN 30
    ELSE 31

\* The ordinal weekday_of_month(wd, d, index) is to return the date of.
WeekdayOrdinal(wd, d, index) ==
    IF index >= 0
    THEN FirstFrom(wd, _ymd2ord(d.year, d.month, 1)) + 7 * index
    ELSE LastUpTo(wd, _ymd2ord(d.year, d.month, MonthLength(d.year, d.month)))
             - 7 * (-index - 1)

\* The Sunday of index i of the month of 2002-11-25 13:22:44 is the day d of
\* month m.
SundayOfNovember2002(i, m, d) ==
    /\ dt = datetime(2002, 11, 25, 48164, "None")
    /\ last.arg = <<SUNDAY, i>>
    => last.res = Return(datetime(2002, m, d, 48164, "None"))

\* C11: weekday_of_month(weekday, dt, index) returns, for index >= 0, the
\* first date of that weekday on or after day 1 of dt's month plus index
\* weeks, and for index < 0 the last date of that weekday on or before the
\* last day of dt's month less |index| - 1 weeks; the result falls on the
\* weekday asked for and keeps dt's time of day; the Sundays of November 2002
\* of indexes 0..4 are Nov 3, 10, 17, 24 and Dec 1, those of indexes -1..-5
\* are Nov 24, 17, 10, 3 and Oct 27; for index 0 and index -1 a result is
\* returned and lies in dt's month.  A date out of the range of datetime is
\* an OverflowError.
C11_WeekdayOfMonth ==
    Did("weekday_of_month") =>
        /\ last.res = dt_from_ordinal(
                          WeekdayOrdinal(last.arg[1], dt, last.arg[2]),
                          dt.tod, dt.tzinfo)
        /\ ~Raised(last.res) => weekday(last.res.val) = last.arg[1]
        /\ last.arg[2] \in {0, -1} =>
               /\ ~Raised(last.res)
               /\ last.res.val.year = dt.year
               /\ last.res.val.month = dt.month
        /\ SundayOfNovember2002(0, 11, 3) /\ SundayOfNovember2002(1, 11, 10)
        /\ SundayOfNovember2002(2, 11, 17) /\ SundayOfNovember2002(3, 11, 24)
        /\ SundayOfNovember2002(4, 12, 1) /\ SundayOfNovember2002(-1, 11, 24)
        /\ SundayOfNovember2002(-2, 11, 17) /\ SundayOfNovember2002(-3, 11, 10)
        /\ SundayOfNovember2002(-4, 11, 3) /\ SundayOfNovember2002(-5, 10, 27)

\* The Sunday of index -5 of November 2002 is October 27.
C11_Witness ==
    /\ Did("weekday_of_month")
    /\ dt = datetime(2002, 11, 25, 48164, "None")
    /\ last.arg = <<SUNDAY, -5>>
    /\ last.res = Return(datetime(2002, 10, 27, 48164, "None"))

---------------------------------------------------------------------------
\* is_leap_year says of a date of year y what leap says.
LeapYearIs(y, leap) ==
    Did("is_leap_year") /\ dt.year = y => last.res = Return(leap)

\* C12: days_in_month(dt) is the length of dt's month in the Gregorian
\* calendar for every month of every year, December's 31 included, and is 29
\* for a February exactly when is_leap_year(dt) is true; is_leap_year is
\* true of the years divisible by 4 and not by 100, or divisible by 400: it
\* is false of 1900, true of 2000, false of 2100, true of 2004.
C12_DaysInMonth ==
    /\ Did("days_in_month") =>
           /\ last.res = Return(MonthLength(dt.year, dt.month))
           /\ dt.month = 2 => ((last.res = Return(29)) <=> is_leap_year(dt))
    /\ Did("is_leap_year") => last.res = Return(GregorianLeap(dt.year))
    /\ LeapYearIs(1900, FALSE) /\ LeapYearIs(2000, TRUE)
    /\ LeapYearIs(2100, FALSE) /\ LeapYearIs(2004, TRUE)

\* February 2000 has 29 days.
C12_Witness ==
    /\ Did("days_in_month")
    /\ dt = datetime(2000, 2, 28, 0, "None")
    /\ last.res = Return(29)

---------------------------------------------------------------------------
\* The date of a transition is a Sunday of the rule's month at the rule's
\* hour, its day of the month from lo to hi.
SundayAt(d, month, hour, lo, hi) ==
    /\ weekday(d) = 6
    /\ d.month = month
    /\ d.tod = hour * 3600
    /\ lo <= d.day /\ d.day <= hi

\* What the start (k = 2) and the end (k = 3) of the generation of first
\* year g are to be in a year.
TransitionHolds(g, k, d) ==
    CASE g = 2007 /\ k = 2 -> SundayAt(d, 3, 2, 8, 14)
      [] g = 2007 /\ k = 3 -> SundayAt(d, 11, 1, 1, 7)
      [] g = 1987 /\ k = 2 -> SundayAt(d, 4, 2, 1, 7)
      [] g = 1987 /\ k = 3 -> SundayAt(d, 10, 1, 25, 31)

\* The date that date(year) is asked of is of the generation of the year.
OfTheYear(i, year) ==
    year >= 1987 /\ dst_rules[i][1] = ExpectedFirstYear(year)

\* C13: for every year >= 1987 the assertions of the US resolution hold:
\* each transition date computed for the year is a Sunday of the rule's own
\* month at the rule's hour, 02:00 for a start and 01:00 for an end; from
\* 2007 on the start is on a day 8..14 and the end on a day <= 7, from 1987
\* to 2006 the start is on a day <= 7 and the end on a day >= 25; and dst
\* raises no AssertionError for any US zone.
C13_Assertions ==
    /\ Did("date") /\ OfTheYear(last.arg[1], dt.year) =>
           /\ ~Raised(last.res)
           /\ last.res.val.year = dt.year
           /\ last.res.val.month
                  = dst_rules[last.arg[1]][last.arg[2]].dummy_date.month
           /\ TransitionHolds(dst_rules[last.arg[1]][1], last.arg[2],
                              last.res.val)
           /\ last.res.val
                  = (IF last.arg[2] = 2 THEN USStart(dt.year)
                     ELSE USEnd(dt.year))
    /\ \A tz \in USZones :
           Did("dst") /\ last.arg = tz /\ dt.year >= 1987 =>
               ~Raised(last.res)

\* With the assertions enabled, the start of 2007 is Sunday March 11, 02:00.
C13_Witness ==
    /\ Did("date")
    /\ assertions
    /\ dt.year = 2007
    /\ last.arg = <<1, 2>>
    /\ last.res = Return(datetime(2007, 3, 11, 7200, "None"))

---------------------------------------------------------------------------
\* The UTC time at which DST ends in a US zone in a year: 01:00 standard time.
FallBackUTC(tz, year) == Shift(USEnd(year), -StdOffset(tz))

\* The UTC time u is in the last hour of DST of the zone, and in the hour
\* after it.
LastDSTHour(tz, u) ==
    /\ u.year >= 1987
    /\ Within(Shift(FallBackUTC(tz, u.year), -3600), u,
              FallBackUTC(tz, u.year))

FirstStandardHour(tz, u) ==
    /\ u.year >= 1987
    /\ Within(FallBackUTC(tz, u.year), u,
              Shift(FallBackUTC(tz, u.year), 3600))

\* A UTC datetime has been converted to tz and back to UTC.
UTCRoundTrip(tz) ==
    /\ Len(hist) = 2
    /\ hist[1].tzinfo = "UTC" /\ hist[2].tzinfo = tz /\ dt.tzinfo = "UTC"

\* A conversion of the chain UTC -> tz -> UTC has raised, the chain having
\* started from u.
UTCRoundTripRaised(tz, u) ==
    /\ pc = "raised" /\ last.op = "astimezone" /\ u.tzinfo = "UTC"
    /\ \/ Len(hist) = 0 /\ u = dt /\ last.arg = tz
       \/ Len(hist) = 1 /\ u = hist[1] /\ dt.tzinfo = tz /\ last.arg = "UTC"

\* The UTC time of 2002-10-27 at the hour h converts to 01:00:00-05:00 EST.
ToEastern0100(h) ==
    Hop("UTC", "Eastern")
    /\ hist[1] = datetime(2002, 10, 27, h * 3600, "UTC")
    => /\ FirstResult = datetime(2002, 10, 27, 3600, "Eastern")
       /\ tz_utcoffset("Eastern", FirstResult, dst_rules, assertions)
              = Return(-5 * 3600)
       /\ tz_tzname("Eastern", FirstResult, dst_rules, assertions)
              = Return("EST")

\* C14: for every US zone and year >= 1987, a UTC time u in the last hour
\* of DST and the time u + 1h convert to the same wall-clock value, in the
\* fold hour and resolved as standard time: 05:00 UTC and 06:00 UTC of
\* 2002-10-27 are both 01:00:00-05:00 EST in Eastern.  That value converts
\* back to u + 1h, and every UTC time outside that hour converts to the zone
\* and back to itself.
C14_UTCFallBack ==
    /\ ToEastern0100(5) /\ ToEastern0100(6)
    /\ \A tz \in USZones :
           /\ Hop("UTC", tz) /\ LastDSTHour(tz, hist[1]) =>
                  /\ FirstResult
                         = Tagged(Shift(hist[1], StdOffset(tz) + 3600), tz)
                  /\ InUSFold(FirstResult)
                  /\ tz_dst(tz, FirstResult, dst_rules, assertions)
                         = Return(zero)
           /\ Hop("UTC", tz) /\ FirstStandardHour(tz, hist[1]) =>
                  FirstResult = Tagged(Shift(hist[1], StdOffset(tz)), tz)
           /\ UTCRoundTrip(tz) /\ LastDSTHour(tz, hist[1]) =>
                  dt = Shift(hist[1], 3600)
           /\ UTCRoundTrip(tz) /\ hist[1].year >= 1987
                  /\ ~LastDSTHour(tz, hist[1]) => dt = hist[1]
           /\ \A u \in {dt} \cup {hist[i] : i \in 1..Len(hist)} :
                  u.year >= 1987 => ~UTCRoundTripRaised(tz, u)

\* 2002-10-27 05:00 UTC is 01:00 in Eastern, which is 06:00 UTC.
C14_Witness ==
    /\ UTCRoundTrip("Eastern")
    /\ hist[1] = datetime(2002, 10, 27, 5 * 3600, "UTC")
    /\ hist[2] = datetime(2002, 10, 27, 3600, "Eastern")
    /\ dt = datetime(2002, 10, 27, 6 * 3600, "UTC")

===========================================================================
